---- MODULE Spec2Model ----
(***************************************************************************)
(* State-machine model of src/main.py: the dashboard poller.               *)
(*                                                                         *)
(* Texts are sequences of one-character strings, so that splitting,        *)
(* filtering and searching are computed the way the Python code computes   *)
(* them.  Python's None is the empty sequence and a present value x is     *)
(* the one-element sequence <<x>>.                                         *)
(*                                                                         *)
(* Three specifications share the definitions:                             *)
(*   SpecParam  one Param, fed arbitrary raw texts;                        *)
(*   SpecLog    append_to_file on an arbitrary log file;                   *)
(*   Spec       main(): start-up, the poll loop over the stations, the     *)
(*              sleep between cycles, the Esc watcher and the drain.       *)
(***************************************************************************)
EXTENDS Integers, Sequences, FiniteSets, TLC

VARIABLES
    prm,          \* SpecParam: the Param object under test
    prmRaised,    \* SpecParam: TRUE iff the last set_float_check_value raised
    Max_SIZE,     \* the module global Max_SIZE (main.py:26, reassigned at :396)
    log,          \* the log file: None while it does not exist, else <<content>>
    lastAppend,   \* SpecLog: the arguments of the last append_to_file call
    pc,           \* where main() stands
    exit_flag,    \* the threading.Event exit_flag
    stations,     \* caaqms_sites, cems_units and eqms, in polling order
    files,        \* the files of data_out: file name -> content
    driver,       \* the browser session: "none", "open" or "closed"
    exitCode,     \* the exit status of the process, None while it runs
    cycle,        \* number of iterations of the while loop begun so far
    result,       \* outcome of each fetch_data call of the current iteration
    history,      \* the result of every finished iteration, oldest first
    elapsed,      \* elapsed_time of the last iteration, in quarter seconds
    slices,       \* iterations the sleep loop still has to run
    srcUp,        \* the dashboard: FALSE during an outage (every click fails)
    faults        \* number of single faulty answers the dashboard has given

paramVars == <<prm, prmRaised>>

mainVars == <<pc, exit_flag, stations, files, driver, exitCode, cycle, result,
              history, elapsed, slices, srcUp, faults>>

vars == <<prm, prmRaised, Max_SIZE, log, lastAppend, pc, exit_flag, stations,
          files, driver, exitCode, cycle, result, history, elapsed, slices,
          srcUp, faults>>

\* ------------------------------------------------------------------------
\* Bounds of the model
\* ------------------------------------------------------------------------

\* longest raw text handed to set_float_check_value in SpecParam
MaxLen == 3

\* SpecLog: longest log file the specification starts from, and the longest
\* file it still appends to
MaxFileLen == 6

\* SpecLog: the value of Max_SIZE, in bytes (the program's is at least 50 KiB)
MaxSizeLog == 4

\* length of the separator line (the program's is 36 dashes, main.py:43)
SepLen == 2

\* Spec: iterations of the while loop a behaviour may begin
MaxCycles == 2

\* Spec: single faulty answers of the dashboard in one behaviour (an outage,
\* which fails every station of an iteration, is not counted)
MaxFaults == 1

\* Spec: config.loop_time_sec in quarter seconds (the program's is >= 30 s)
LoopTimeQ == 6

\* Spec: the floor of config.log_size_kb in bytes (the program's is 50 KiB),
\* in symbols of the model's log
LogSizeFloor == 600

\* ------------------------------------------------------------------------
\* Python values
\* ------------------------------------------------------------------------

None == <<>>

Some(x) == <<x>>

TheValue(opt) == opt[1]

Digits == {"0", "1", "2", "3", "4", "5", "6", "7", "8", "9"}

Whitespace == {" ", "\t", "\n"}

DigitVal(c) ==
    CASE c = "0" -> 0 [] c = "1" -> 1 [] c = "2" -> 2 [] c = "3" -> 3
      [] c = "4" -> 4 [] c = "5" -> 5 [] c = "6" -> 6 [] c = "7" -> 7
      [] c = "8" -> 8 [] c = "9" -> 9

\* every text over the alphabet of length at most n
TextsUpTo(alphabet, n) == UNION {[1..k -> alphabet] : k \in 0..n}

\* str.split() with no argument: the maximal runs of non-whitespace
RECURSIVE SplitFrom(_, _, _, _)
SplitFrom(s, i, cur, acc) ==
    IF i > Len(s)
    THEN IF cur = <<>> THEN acc ELSE Append(acc, cur)
    ELSE IF s[i] \in Whitespace
         THEN SplitFrom(s, i + 1, <<>>, IF cur = <<>> THEN acc ELSE Append(acc, cur))
         ELSE SplitFrom(s, i + 1, Append(cur, s[i]), acc)

Split(s) == SplitFrom(s, 1, <<>>, <<>>)

\* x.replace('.', ''): every dot is removed
RemoveDots(x) == SelectSeq(x, LAMBDA c : c # ".")

\* str.isdigit() on the characters of the model: non-empty and all digits
IsDigit(x) == x # <<>> /\ \A i \in 1..Len(x) : x[i] \in Digits

NumDots(x) == Len(SelectSeq(x, LAMBDA c : c = "."))

RECURSIVE DigitsValue(_)
DigitsValue(ds) ==
    IF ds = <<>> THEN 0
    ELSE 10 * DigitsValue(SubSeq(ds, 1, Len(ds) - 1)) + DigitVal(ds[Len(ds)])

\* a decimal number num * 10^-exp without trailing zeros in the fraction
RECURSIVE Normalize(_, _)
Normalize(num, exp) ==
    IF exp > 0 /\ num % 10 = 0 THEN Normalize(num \div 10, exp - 1)
    ELSE [num |-> num, exp |-> exp]

DotPos(x) == CHOOSE i \in 1..Len(x) : x[i] = "."

\* float(x) for a token of digits and dots holding at least one digit: the
\* value when there is at most one dot, ValueError otherwise
Float(x) ==
    IF NumDots(x) > 1 THEN [ok |-> FALSE, val |-> Normalize(0, 0)]
    ELSE [ok |-> TRUE,
          val |-> Normalize(DigitsValue(RemoveDots(x)),
                            IF NumDots(x) = 0 THEN 0 ELSE Len(x) - DotPos(x))]

\* ------------------------------------------------------------------------
\* class Param
\* ------------------------------------------------------------------------

ParamInit(unit) ==
    [value_raw |-> None, value_parsed |-> None, unit |-> unit,
     is_health_ok |-> FALSE]

\* the generator's filter: x.replace('.', '').isdigit()
Candidates(value) == SelectSeq(Split(value), LAMBDA x : IsDigit(RemoveDots(x)))

\* Param.set_float_check_value: the Param afterwards and whether the call
\* raised.  value_raw is assigned before the try; next() evaluates float() on
\* the first candidate only; a ValueError of float() is not a StopIteration,
\* so it leaves the method with value_parsed and is_health_ok as they were.
set_float_check_value(p, value) ==
    LET p1 == [p EXCEPT !.value_raw = Some(value)]
        cand == Candidates(value)
    IN  IF cand = <<>>
        THEN [param |-> [p1 EXCEPT !.is_health_ok = FALSE], raised |-> FALSE]
        ELSE IF Float(cand[1]).ok
             THEN [param |-> [p1 EXCEPT !.value_parsed = Some(Float(cand[1]).val),
                                        !.is_health_ok = TRUE],
                   raised |-> FALSE]
             ELSE [param |-> p1, raised |-> TRUE]

\* ------------------------------------------------------------------------
\* SpecParam: one Param, any sequence of raw texts
\* ------------------------------------------------------------------------

IngestAlphabet == {"1", ".", " ", "a"}

ParamTexts == TextsUpTo(IngestAlphabet, MaxLen)

InitParam ==
    /\ prm = ParamInit("ppm")
    /\ prmRaised = FALSE
    /\ Max_SIZE = 0
    /\ log = None
    /\ lastAppend = None
    /\ pc = "idle"
    /\ exit_flag = FALSE
    /\ stations = <<>>
    /\ files = <<>>
    /\ driver = "none"
    /\ exitCode = None
    /\ cycle = 0
    /\ result = <<>>
    /\ history = <<>>
    /\ elapsed = 0
    /\ slices = 0
    /\ srcUp = TRUE
    /\ faults = 0

Ingest ==
    \E t \in ParamTexts :
        /\ prm' = set_float_check_value(prm, t).param
        /\ prmRaised' = set_float_check_value(prm, t).raised
        /\ UNCHANGED <<Max_SIZE, log, lastAppend, mainVars>>

NextParam == Ingest

SpecParam == InitParam /\ [][NextParam]_vars

\* ------------------------------------------------------------------------
\* Claims about Param
\* ------------------------------------------------------------------------

\* a token that, after removing at most one '.', is a non-empty digit string
IsNumberToken(x) == NumDots(x) <= 1 /\ IsDigit(RemoveDots(x))

HasValidToken(t) == \E i \in 1..Len(Split(t)) : IsNumberToken(Split(t)[i])

\* C2: after any ingests, healthy is true iff the most recently ingested raw
\* text contains a whitespace-delimited token that is a number with at most
\* one '.', for every raw text, tokens with several dots included.
C2_HealthIffValidToken ==
    prm.value_raw # None =>
        (prm.is_health_ok <=> HasValidToken(TheValue(prm.value_raw)))

\* C3: in every reachable state an unhealthy Reading has no parsed value,
\* also when an earlier ingest had stored one.
C3_UnhealthyHasNoParsedValue ==
    ~prm.is_health_ok => prm.value_parsed = None

\* ------------------------------------------------------------------------
\* append_to_file
\* ------------------------------------------------------------------------

Min(S) == CHOOSE x \in S : \A y \in S : x <= y

\* line = "------------------------------------"
SepLine == [i \in 1..SepLen |-> "-"]

\* characters whose UTF-8 encoding takes two bytes (the μ and ³ of the units)
TwoByteChars == {"u"}

\* st_size: the number of bytes of the UTF-8 encoded content
ByteSize(content) ==
    Len(content) + Cardinality({i \in 1..Len(content) : content[i] \in TwoByteChars})

\* str.find(sub, start): the lowest 0-based index >= start at which sub
\* occurs, -1 when there is none
Find(content, sub, start) ==
    LET hits == {i \in start..(Len(content) - Len(sub)) :
                     SubSeq(content, i + 1, i + Len(sub)) = sub}
    IN  IF hits = {} THEN -1 ELSE Min(hits)

\* a mutant of Trimmed: the text before the first separator is lost
TrimmedDropPrefix(content) ==
    LET first_sep == Find(content, SepLine, 0)
        second_sep == Find(content, SepLine, first_sep + Len(SepLine))
    IN  IF first_sep # -1 /\ second_sep # -1
        THEN SubSeq(content, second_sep + 1, Len(content))
        ELSE content

\* lines 48-59: the content the file holds after the oversize branch
Trimmed(content) ==
    LET first_sep == Find(content, SepLine, 0)
        second_sep == Find(content, SepLine, first_sep + Len(SepLine))
    IN  IF first_sep # -1 /\ second_sep # -1
        THEN SubSeq(content, 1, first_sep)
                 \o SubSeq(content, second_sep + 1, Len(content))
        ELSE content

\* a mutant of append_to_file: the size test is dropped
append_to_file_always_trims(file, text) ==
    Some((IF file # None THEN Trimmed(TheValue(file)) ELSE <<>>) \o text \o <<"\n">>)

\* append_to_file(file_path, text) on the file `file`: the file afterwards
append_to_file(file, text) ==
    LET kept == IF file = None THEN <<>>
                ELSE IF ByteSize(TheValue(file)) > Max_SIZE
                     THEN Trimmed(TheValue(file))
                     ELSE TheValue(file)
    IN  Some(kept \o text \o <<"\n">>)

\* ------------------------------------------------------------------------
\* SpecLog: append_to_file on any log file
\* ------------------------------------------------------------------------

LogAlphabet == {"-", "x", "\n", "u"}

LogFiles == {None} \cup {Some(c) : c \in TextsUpTo(LogAlphabet, MaxFileLen)}

LogTexts == TextsUpTo({"-", "x"}, SepLen)

InitLog ==
    /\ prm = ParamInit("ppm")
    /\ prmRaised = FALSE
    /\ Max_SIZE = MaxSizeLog
    /\ log \in LogFiles
    /\ lastAppend = None
    /\ pc = "idle"
    /\ exit_flag = FALSE
    /\ stations = <<>>
    /\ files = <<>>
    /\ driver = "none"
    /\ exitCode = None
    /\ cycle = 0
    /\ result = <<>>
    /\ history = <<>>
    /\ elapsed = 0
    /\ slices = 0
    /\ srcUp = TRUE
    /\ faults = 0

AppendLine ==
    /\ IF log = None THEN TRUE ELSE Len(TheValue(log)) <= MaxFileLen
    /\ \E text \in LogTexts :
        /\ log' = append_to_file(log, text)
        /\ lastAppend' = Some([old |-> log, text |-> text])
    /\ UNCHANGED <<prm, prmRaised, Max_SIZE, mainVars>>

NextLog == AppendLine

SpecLog == InitLog /\ [][NextLog]_vars

\* ------------------------------------------------------------------------
\* Claims about append_to_file
\* ------------------------------------------------------------------------

\* the 1-based positions at which a separator marker starts
MarkerStarts(c) ==
    {i \in 1..(Len(c) - SepLen + 1) :
        \A k \in 0..(SepLen - 1) : c[i + k] = "-"}

FirstMarker(c) == Min(MarkerStarts(c))

\* the markers that start after the first marker has ended
LaterMarkers(c) == {j \in MarkerStarts(c) : j >= FirstMarker(c) + SepLen}

HasTwoMarkers(c) == MarkerStarts(c) # {} /\ LaterMarkers(c) # {}

OldFile == TheValue(lastAppend).old

OldText == TheValue(lastAppend).text

Oversize(file) == file # None /\ ByteSize(TheValue(file)) > Max_SIZE

\* C4: an append to a log whose size exceeds the maximum and which holds two
\* separator markers leaves the old content without the range from the first
\* marker (inclusive) to the second (exclusive), followed by the new line and
\* a newline.
C4_Rotation ==
    (lastAppend # None /\ Oversize(OldFile) /\ HasTwoMarkers(TheValue(OldFile))) =>
        LET c == TheValue(OldFile)
        IN  log = Some(SubSeq(c, 1, FirstMarker(c) - 1)
                         \o SubSeq(c, Min(LaterMarkers(c)), Len(c))
                         \o OldText \o <<"\n">>)

\* a rotation that kept text on both sides of the removed block
C4_Witness ==
    /\ lastAppend # None
    /\ Oversize(OldFile)
    /\ HasTwoMarkers(TheValue(OldFile))
    /\ FirstMarker(TheValue(OldFile)) > 1
    /\ Min(LaterMarkers(TheValue(OldFile))) > FirstMarker(TheValue(OldFile)) + SepLen
    /\ Len(TheValue(log)) < Len(TheValue(OldFile))

\* C5: an append to a file that does not exist, is not larger than the
\* maximum, or holds fewer than two separator markers leaves the old content
\* as it was, followed by the new line and a newline.
C5_NoTrim ==
    (lastAppend # None
        /\ (~Oversize(OldFile) \/ ~HasTwoMarkers(TheValue(OldFile)))) =>
        log = Some((IF OldFile = None THEN <<>> ELSE TheValue(OldFile))
                      \o OldText \o <<"\n">>)

\* an oversize file with one marker, and a small file with two, both kept
C5_WitnessOneMarker ==
    /\ lastAppend # None
    /\ Oversize(OldFile)
    /\ MarkerStarts(TheValue(OldFile)) # {}
    /\ ~HasTwoMarkers(TheValue(OldFile))

\* ------------------------------------------------------------------------
\* print_with_log
\* ------------------------------------------------------------------------

\* "[<get_time()>]: ", one symbol: the clock's digits play no part
TimeStamp == "[t]: "

\* print_with_log(item, file_path, time_req, level) on the log file lg
print_with_log(item, lg, time_req) ==
    append_to_file(lg, (IF time_req THEN <<TimeStamp>> ELSE <<>>) \o item)

\* ------------------------------------------------------------------------
\* The stations: Caaqms, Cems, Eqms
\* ------------------------------------------------------------------------

\* range(1, 4) and range(1, 8): three air-quality stations, seven units
NumCaaqms == 3

NumCems == 7

NumStations == NumCaaqms + NumCems + 1

DigitChar(n) == <<"0", "1", "2", "3", "4", "5", "6", "7", "8", "9">>[n + 1]

\* the params dict of each class: (key, unit) in insertion order
ParamSpecs(cat) ==
    CASE cat = "caaqms" ->
            << <<"co", "mg/m3">>, <<"co2", "ppm">>, <<"nox", "ug/m3">>,
               <<"pm10", "ug/m3">>, <<"pm2_5", "ug/m3">>, <<"so2", "ug/m3">> >>
      [] cat = "cems" ->
            << <<"nox", "mg/nm3">>, <<"pm", "mg/nm3">>, <<"so2", "mg/nm3">> >>
      [] cat = "eqms" ->
            << <<"bod_toc", "mg/L">>, <<"cod_toc", "mg/L">>, <<"ph", "pH">>,
               <<"toc", "mg/L">>, <<"tss", "mg/L">>, <<"temperature", "C">> >>

NumParams(cat) == Len(ParamSpecs(cat))

\* k.upper() of a params key
UpperKey(k) ==
    CASE k = "co" -> "CO" [] k = "co2" -> "CO2" [] k = "nox" -> "NOX"
      [] k = "pm10" -> "PM10" [] k = "pm2_5" -> "PM2_5" [] k = "so2" -> "SO2"
      [] k = "pm" -> "PM" [] k = "bod_toc" -> "BOD_TOC" [] k = "cod_toc" -> "COD_TOC"
      [] k = "ph" -> "PH" [] k = "toc" -> "TOC" [] k = "tss" -> "TSS"
      [] k = "temperature" -> "TEMPERATURE"

\* __init__ of the three classes; a name is the text of its symbols, the
\* constructor's literal first
NewStation(cat, name, selector_idx) ==
    [cat |-> cat, name |-> <<name>>, selector_idx |-> selector_idx, unit |-> None,
     params |-> [i \in 1..NumParams(cat) |-> ParamInit(ParamSpecs(cat)[i][2])]]

\* a mutant of ConstructStations: the effluent station comes first
ConstructStationsEqmsFirst ==
    [s \in 1..NumStations |->
        IF s = 1 THEN NewStation("eqms", "ETP", 0)
        ELSE IF s <= NumCaaqms + 1 THEN NewStation("caaqms", "AAQMS ", s - 1)
             ELSE NewStation("cems", "CEMS UNIT# ", s - NumCaaqms - 1)]

\* lines 407-419: caaqms_sites, cems_units and eqms, in the order main polls
ConstructStations ==
    [s \in 1..NumStations |->
        IF s <= NumCaaqms THEN NewStation("caaqms", "AAQMS ", s)
        ELSE IF s <= NumCaaqms + NumCems
             THEN NewStation("cems", "CEMS UNIT# ", s - NumCaaqms)
             ELSE NewStation("eqms", "ETP", 0)]

\* repr(float) of a parsed value, e.g. 1.0, 0.5, 12.25
RECURSIVE NatChars(_)
NatChars(n) ==
    IF n < 10 THEN <<DigitChar(n)>>
    ELSE NatChars(n \div 10) \o <<DigitChar(n % 10)>>

RECURSIVE Pow10(_)
Pow10(e) == IF e = 0 THEN 1 ELSE 10 * Pow10(e - 1)

RECURSIVE PadZeros(_, _)
PadZeros(cs, width) == IF Len(cs) >= width THEN cs ELSE PadZeros(<<"0">> \o cs, width)

FloatStr(v) ==
    NatChars(v.num \div Pow10(v.exp)) \o <<".">>
        \o (IF v.exp = 0 THEN <<"0">>
            ELSE PadZeros(NatChars(v.num % Pow10(v.exp)), v.exp))

\* Param.__str__
ParamStr(p) ==
    IF p.value_raw = None THEN <<"Uninitialized - No Value fetched">>
    ELSE IF ~p.is_health_ok
         THEN <<"Invalid Data - Raw value: \"">> \o TheValue(p.value_raw) \o <<"\"">>
         ELSE FloatStr(TheValue(p.value_parsed)) \o <<" ", p.unit>>

RECURSIVE JoinParams(_, _, _)
JoinParams(cat, params, i) ==
    IF i > Len(params) THEN <<>>
    ELSE (IF i = 1 THEN <<>> ELSE <<", ">>)
             \o <<UpperKey(ParamSpecs(cat)[i][1]), ": ">> \o ParamStr(params[i])
             \o JoinParams(cat, params, i + 1)

\* __str__ of the three classes (Eqms writes "Data", the others "DATA")
Render(st) ==
    st.name \o <<IF st.cat = "eqms" THEN " Data:- " ELSE " DATA:- ">>
        \o JoinParams(st.cat, st.params, 1)

\* ------------------------------------------------------------------------
\* fetch_data
\* ------------------------------------------------------------------------

Max(S) == CHOOSE x \in S : \A y \in S : x >= y

\* pre.split('_')[-1]
LastSegment(pre) ==
    LET us == {i \in 1..Len(pre) : pre[i] = "_"}
    IN  IF us = {} THEN pre ELSE SubSeq(pre, Max(us) + 1, Len(pre))

UpperChar(c) == CASE c = "a" -> "A" [] c = "b" -> "B" [] OTHER -> c

Upper(x) == [i \in 1..Len(x) |-> UpperChar(x[i])]

\* str.isprintable(): no control character (true of the empty text)
IsPrintable(x) == \A i \in 1..Len(x) : x[i] \notin {"\t", "\n"}

RECURSIVE LStrip(_)
LStrip(x) == IF x # <<>> /\ Head(x) \in Whitespace THEN LStrip(Tail(x)) ELSE x

\* str(int(x)) of a digit text: leading zeros go
RECURSIVE IntStr(_)
IntStr(x) == IF Len(x) > 1 /\ Head(x) = "0" THEN IntStr(Tail(x)) ELSE x

\* lines 200-201 and 246-247: the suffix x the title yields, None if unusable
TitleUnit(cat, pre) ==
    LET seg == LastSegment(pre)
    IN  IF cat = "caaqms"
        THEN IF IsPrintable(Upper(seg)) THEN Some(LStrip(Upper(seg))) ELSE None
        ELSE IF IsDigit(seg) THEN Some(IntStr(seg)) ELSE None

\* a mutant of Discover: the suffix is appended but self.unit is not set
DiscoverForgetsUnit(st, pre) ==
    LET x == TitleUnit(st.cat, pre)
    IN  IF x = None THEN st
        ELSE [st EXCEPT !.name = st.name \o TheValue(x)]

\* lines 202-204 and 248-250: the station after the title lookup
Discover(st, pre) ==
    LET x == TitleUnit(st.cat, pre)
    IN  IF x = None THEN st
        ELSE [st EXCEPT !.unit = x, !.name = st.name \o TheValue(x)]

\* a mutant of FetchFrom: a failing parameter is skipped and the loop goes on
RECURSIVE FetchFromSkipping(_, _, _)
FetchFromSkipping(params, vals, i) ==
    IF i > Len(params) THEN [params |-> params, failedAt |-> 0, error |-> "none"]
    ELSE IF vals[i] = None
         THEN [FetchFromSkipping(params, vals, i + 1) EXCEPT
                   !.failedAt = i, !.error = "TimeoutException"]
         ELSE LET r == set_float_check_value(params[i], TheValue(vals[i]))
              IN  IF r.raised
                  THEN [FetchFromSkipping([params EXCEPT ![i] = r.param], vals, i + 1)
                            EXCEPT !.failedAt = i, !.error = "ValueError"]
                  ELSE FetchFromSkipping([params EXCEPT ![i] = r.param], vals, i + 1)

\* the for loop over self.params.items(), from position i on: vals[i] is the
\* text the i-th element shows, None when the wait for it raises.  The loop
\* ends at the first wait or set_float_check_value that raises.
RECURSIVE FetchFrom(_, _, _)
FetchFrom(params, vals, i) ==
    IF i > Len(params) THEN [params |-> params, failedAt |-> 0, error |-> "none"]
    ELSE IF vals[i] = None
         THEN [params |-> params, failedAt |-> i, error |-> "TimeoutException"]
         ELSE LET r == set_float_check_value(params[i], TheValue(vals[i]))
              IN  IF r.raised
                  THEN [params |-> [params EXCEPT ![i] = r.param],
                        failedAt |-> i, error |-> "ValueError"]
                  ELSE FetchFrom([params EXCEPT ![i] = r.param], vals, i + 1)

\* open(data_out / file_name, 'w') succeeds unless the name holds a path
\* separator, which places the file in a directory that does not exist
ValidFileName(file_name) == \A i \in 1..Len(file_name) : file_name[i] # "/"

\* a mutant of Escapes: the except clause re-raises
EscapesOnFailure(outcome) == ~outcome.ok

\* whether an exception leaves fetch_data: `except Exception` (lines 217-219)
\* catches whatever the body raised and only logs it
Escapes(outcome) == FALSE

\* the except clause: one error line with the station's name
Failed(st, fs, lg, stage, at, error) ==
    [st |-> st, files |-> fs,
     log |-> print_with_log(<<"Error fetching data for ">> \o st.name \o <<": ", error>>,
                            lg, TRUE),
     outcome |-> [ok |-> FALSE, stage |-> stage, at |-> at]]

\* fetch_data(self, driver, file_name, config) of Caaqms, Cems and Eqms (Eqms
\* has no title lookup).  d is what the driver answers during the call:
\* d.tab is FALSE when the tab click raises, d.title the title text (None
\* when that wait raises), d.vals the parameter texts.  fs are the files of
\* data_out, lg the log file.
fetch_data(st, file_name, d, fs, lg) ==
    IF ~d.tab THEN Failed(st, fs, lg, "tab", 0, "TimeoutException")
    ELSE
    LET lookup == st.cat # "eqms" /\ st.unit = None
    IN  IF lookup /\ d.title = None
        THEN Failed(st, fs, lg, "title", 0, "TimeoutException")
        ELSE
        LET st1 == IF lookup THEN Discover(st, TheValue(d.title)) ELSE st
            fn1 == IF lookup /\ st1.unit # None THEN st1.name \o <<".txt">>
                   ELSE file_name
            f   == FetchFrom(st1.params, d.vals, 1)
            st2 == [st1 EXCEPT !.params = f.params]
        IN  IF f.failedAt # 0
            THEN Failed(st2, fs, lg, "param", f.failedAt, f.error)
            ELSE
            LET lg1 == print_with_log(Render(st2), lg, TRUE)
            IN  IF ~ValidFileName(fn1)
                THEN Failed(st2, fs, lg1, "write", 0, "FileNotFoundError")
                ELSE [st |-> st2,
                      files |-> (fn1 :> Render(st2)) @@ fs,
                      log |-> lg1,
                      outcome |-> [ok |-> TRUE, stage |-> "done", at |-> 0]]

\* ------------------------------------------------------------------------
\* The dashboard: what the driver answers during one fetch_data call
\* ------------------------------------------------------------------------

\* the title a station's element shows when nothing is wrong
NominalTitle(st) == <<"S", "_", DigitChar(st.selector_idx)>>

\* the text every parameter element shows during iteration c
NominalText(c) == <<DigitChar(c)>>

\* titles the dashboard may show instead: the suffix of station 1, a letter,
\* a control character, a text with a path separator
OddTitles ==
    { <<"S", "_", "1">>, <<"S", "_", "a">>, <<"S", "_", "\t">>,
      <<"S", "_", "a", "/", "b">> }

\* parameter texts the dashboard may show instead: no number, two dots
OddTexts == { <<"N", "A">>, <<"1", ".", "2", ".", "3">> }

NoFault == [kind |-> "none", at |-> 0, text |-> <<>>]

\* the single faulty answers a call on st can meet
FaultsFor(st) ==
    {[kind |-> "tab", at |-> 0, text |-> <<>>]}
    \cup (IF st.cat # "eqms" /\ st.unit = None
          THEN {[kind |-> "titleRaise", at |-> 0, text |-> <<>>]}
               \cup {[kind |-> "title", at |-> 0, text |-> t] : t \in OddTitles}
          ELSE {})
    \cup {[kind |-> "paramRaise", at |-> k, text |-> <<>>] :
              k \in {1, NumParams(st.cat)}}
    \cup {[kind |-> "text", at |-> 1, text |-> t] : t \in OddTexts}

\* the answers of the driver during a call on st in iteration c
View(st, c, fault) ==
    [tab   |-> fault.kind # "tab",
     title |-> IF fault.kind = "titleRaise" THEN None
               ELSE IF fault.kind = "title" THEN Some(fault.text)
               ELSE Some(NominalTitle(st)),
     vals  |-> [i \in 1..NumParams(st.cat) |->
                  IF fault.kind = "paramRaise" /\ fault.at = i THEN None
                  ELSE IF fault.kind = "text" /\ fault.at = i THEN Some(fault.text)
                  ELSE Some(NominalText(c))]]

\* ------------------------------------------------------------------------
\* main() and check_for_exit()
\* ------------------------------------------------------------------------

Max2(a, b) == IF a >= b THEN a ELSE b

\* time.sleep(0.5): one slice is two quarter seconds
SliceQ == 2

\* the slowest iteration the model lets the clock measure
MaxElapsed == LoopTimeQ + 1

\* values of application.log_size_kb in the configuration file, in bytes
ConfigLogSizes == {0, LogSizeFloor}

\* the log a previous run of the program has left
OldRunLog ==
    SepLine \o <<"\n", TimeStamp, "Application Started.", "\n">> \o SepLine
        \o <<"\n", TimeStamp, "Received Esc, Preparing to exit...", "\n">> \o SepLine
        \o <<"\n", TimeStamp, "Application Ended", "\n">> \o SepLine \o <<"\n">>

Init ==
    /\ prm = ParamInit("ppm")
    /\ prmRaised = FALSE
    /\ lastAppend = None
    /\ Max_SIZE = LogSizeFloor
    /\ log \in {None, Some(OldRunLog)}
    /\ pc = "config"
    /\ exit_flag = FALSE
    /\ stations = <<>>
    /\ files = <<>>
    /\ driver = "none"
    /\ exitCode = None
    /\ cycle = 0
    /\ result = <<>>
    /\ history = <<>>
    /\ elapsed = 0
    /\ slices = 0
    /\ srcUp = TRUE
    /\ faults = 0

\* check_for_exit: Esc is pressed while the process runs
EscPressed ==
    /\ ~exit_flag
    /\ pc \notin {"exited", "crashed", "stopped"}
    /\ exit_flag' = TRUE
    /\ UNCHANGED <<paramVars, Max_SIZE, log, lastAppend, pc, stations, files, driver,
                   exitCode, cycle, result, history, elapsed, slices, srcUp, faults>>

\* lines 391-419: the configuration is read and the stations are built, or
\* the except clause logs and calls exit()
ReadConfig ==
    /\ pc = "config"
    /\ \/ /\ \E kb \in ConfigLogSizes : Max_SIZE' = Max2(kb, LogSizeFloor)
          /\ stations' = ConstructStations
          /\ pc' = "login"
          /\ UNCHANGED exitCode
       \/ /\ pc' = "exited"
          /\ exitCode' = Some(0)
          /\ UNCHANGED <<Max_SIZE, stations>>
    /\ UNCHANGED <<paramVars, log, lastAppend, exit_flag, files, driver, cycle,
                   result, history, elapsed, slices, srcUp, faults>>

LoginError == <<"Error during login: ", "WebDriverException">>

\* a mutant of Login: a login that raised is logged and tried again
LoginRetrying ==
    /\ pc = "login"
    /\ \/ /\ log' = print_with_log(LoginError, log, TRUE)
          /\ pc' = "login"
          /\ UNCHANGED <<driver, exitCode>>
       \/ /\ driver' = "open"
          /\ pc' = "navigate"
          /\ UNCHANGED <<log, exitCode>>
    /\ UNCHANGED <<paramVars, Max_SIZE, lastAppend, exit_flag, stations, files, cycle,
                   result, history, elapsed, slices, srcUp, faults>>

\* start_browser_and_login up to its yield: Chrome does not start (line 361,
\* outside the try), or the login raises (logged, re-raised, driver closed in
\* the finally), or the driver is handed to main
Login ==
    /\ pc = "login"
    /\ \/ /\ pc' = "crashed"
          /\ exitCode' = Some(1)
          /\ UNCHANGED <<log, driver>>
       \/ /\ log' = print_with_log(LoginError, log, TRUE)
          /\ driver' = "closed"
          /\ pc' = "crashed"
          /\ exitCode' = Some(1)
       \/ /\ driver' = "open"
          /\ pc' = "navigate"
          /\ UNCHANGED <<log, exitCode>>
    /\ UNCHANGED <<paramVars, Max_SIZE, lastAppend, exit_flag, stations, files, cycle,
                   result, history, elapsed, slices, srcUp, faults>>

\* lines 425-428: the two clicks; an exception is thrown into the context
\* manager at its yield, which logs it, re-raises and closes the driver
Navigate ==
    /\ pc = "navigate"
    /\ \/ /\ pc' = "startlog"
          /\ UNCHANGED <<log, driver, exitCode>>
       \/ /\ log' = print_with_log(LoginError, log, TRUE)
          /\ driver' = "closed"
          /\ pc' = "crashed"
          /\ exitCode' = Some(1)
    /\ UNCHANGED <<paramVars, Max_SIZE, lastAppend, exit_flag, stations, files, cycle,
                   result, history, elapsed, slices, srcUp, faults>>

\* lines 430-436: the lines written before the loop
StartupLines(lg) ==
    LET lg0 == IF lg = None THEN print_with_log(SepLine, lg, FALSE)
               ELSE IF ByteSize(TheValue(lg)) = 0
                    THEN print_with_log(SepLine, lg, FALSE)
                    ELSE lg
        lg1 == print_with_log(<<"Application Started.">>, lg0, TRUE)
    IN  print_with_log(SepLine, lg1, FALSE)

\* lines 430-436
StartupLog ==
    /\ pc = "startlog"
    /\ log' = StartupLines(log)
    /\ pc' = "loop"
    /\ UNCHANGED <<paramVars, Max_SIZE, lastAppend, exit_flag, stations, files, driver,
                   exitCode, cycle, result, history, elapsed, slices, srcUp, faults>>

\* a mutant of KeepLooping: the loop also ends after a failed station
KeepLoopingUnlessFailed(flag, res) == ~flag /\ \A i \in 1..Len(res) : res[i].ok

\* line 438: while not exit_flag.is_set() -- whatever the last iteration's
\* fetch_data calls came to
KeepLooping(flag, res) == ~flag

\* a mutant of BreakSleep: the sleep loop never looks at the flag
BreakSleepNever(flag) == FALSE

\* lines 464-465: if exit_flag.is_set(): break
BreakSleep(flag) == flag

\* line 438 with exit_flag clear, line 439: an iteration begins
StartCycle ==
    /\ pc = "loop"
    /\ KeepLooping(exit_flag, result)
    /\ cycle < MaxCycles
    /\ pc' = "poll"
    /\ cycle' = cycle + 1
    /\ result' = <<>>
    /\ srcUp' \in BOOLEAN
    /\ elapsed' = 0
    /\ slices' = 0
    /\ UNCHANGED <<paramVars, Max_SIZE, log, lastAppend, exit_flag, stations, files,
                   driver, exitCode, history, faults>>

\* the file_name argument main passes (lines 443, 446, 448)
FileNameArg(st) == IF st.cat = "eqms" THEN <<"ETP", ".txt">> ELSE st.name \o <<".txt">>

\* a mutant of ForLoopsDone: the for loops are also left once the flag is set
ForLoopsDoneOrFlag(flag, res) == flag \/ Len(res) = NumStations

\* lines 442-448: the three for loops end when every station had its call;
\* they do not read exit_flag
ForLoopsDone(flag, res) == Len(res) = NumStations

\* lines 442-448: the next fetch_data call of the iteration; lines 453-455
\* when an exception leaves it
PollStation ==
    /\ pc = "poll"
    /\ ~ForLoopsDone(exit_flag, result)
    /\ LET s == Len(result) + 1
       IN  \E fault \in {NoFault} \cup FaultsFor(stations[s]) :
             /\ IF ~srcUp THEN fault.kind = "tab"
                ELSE fault = NoFault \/ faults < MaxFaults
             /\ faults' = IF srcUp /\ fault # NoFault THEN faults + 1 ELSE faults
             /\ LET r == fetch_data(stations[s], FileNameArg(stations[s]),
                                    View(stations[s], cycle, fault), files, log)
                IN  /\ stations' = [stations EXCEPT ![s] = r.st]
                    /\ files' = r.files
                    /\ result' = Append(result, r.outcome)
                    /\ IF Escapes(r.outcome)
                       THEN /\ log' = print_with_log(<<"Error occurred: ", "Exception">>,
                                                     r.log, TRUE)
                            /\ pc' = "aborted"
                       ELSE /\ log' = r.log
                            /\ pc' = "poll"
    /\ UNCHANGED <<paramVars, Max_SIZE, lastAppend, exit_flag, driver, exitCode, cycle,
                   history, elapsed, slices, srcUp>>

\* lines 450-451 after the last station, then lines 458-462: the separator,
\* the elapsed time and the number of sleep slices
EndCycle ==
    /\ \/ pc = "poll" /\ ForLoopsDone(exit_flag, result)
       \/ pc = "aborted"
    /\ log' = IF pc = "poll" THEN print_with_log(SepLine, log, FALSE) ELSE log
    /\ history' = Append(history, result)
    /\ \E e \in 0..MaxElapsed :
        /\ elapsed' = e
        /\ slices' = Max2(0, LoopTimeQ - e) \div SliceQ
        /\ pc' = IF Max2(0, LoopTimeQ - e) \div SliceQ = 0 THEN "loop" ELSE "sleep"
    /\ UNCHANGED <<paramVars, Max_SIZE, lastAppend, exit_flag, stations, files, driver,
                   exitCode, cycle, result, srcUp, faults>>

\* lines 462-465: one slice of sleep, then the check of exit_flag
SleepSlice ==
    /\ pc = "sleep"
    /\ slices > 0
    /\ slices' = slices - 1
    /\ pc' = IF BreakSleep(exit_flag) \/ slices - 1 = 0 THEN "loop" ELSE "sleep"
    /\ UNCHANGED <<paramVars, Max_SIZE, log, lastAppend, exit_flag, stations, files,
                   driver, exitCode, cycle, result, history, elapsed, srcUp, faults>>

\* a mutant of LeaveLoop: the with block is left without closing the driver
LeaveLoopKeepsSession ==
    /\ pc = "loop"
    /\ ~KeepLooping(exit_flag, result)
    /\ pc' = "drain"
    /\ UNCHANGED <<paramVars, Max_SIZE, log, lastAppend, exit_flag, stations, files,
                   driver, exitCode, cycle, result, history, elapsed, slices, srcUp,
                   faults>>

\* line 438 with exit_flag set: the with block is left, the driver closed
LeaveLoop ==
    /\ pc = "loop"
    /\ ~KeepLooping(exit_flag, result)
    /\ driver' = "closed"
    /\ pc' = "drain"
    /\ UNCHANGED <<paramVars, Max_SIZE, log, lastAppend, exit_flag, stations, files,
                   exitCode, cycle, result, history, elapsed, slices, srcUp, faults>>

\* a mutant of DrainLines: the two banners change places
DrainLinesSwapped(lg) ==
    LET l1 == print_with_log(<<"Application Ended">>, lg, TRUE)
        l2 == print_with_log(SepLine, l1, FALSE)
        l3 == print_with_log(<<"Received Esc, Preparing to exit...">>, l2, TRUE)
    IN  print_with_log(SepLine, l3, FALSE)

\* lines 467-474: the four lines written after the loop
DrainLines(lg) ==
    LET l1 == print_with_log(<<"Received Esc, Preparing to exit...">>, lg, TRUE)
        l2 == print_with_log(SepLine, l1, FALSE)
        l3 == print_with_log(<<"Application Ended">>, l2, TRUE)
    IN  print_with_log(SepLine, l3, FALSE)

\* lines 467-474, then main returns
Drain ==
    /\ pc = "drain"
    /\ log' = DrainLines(log)
    /\ pc' = "stopped"
    /\ exitCode' = Some(0)
    /\ UNCHANGED <<paramVars, Max_SIZE, lastAppend, exit_flag, stations, files, driver,
                   cycle, result, history, elapsed, slices, srcUp, faults>>

MainStep ==
    \/ ReadConfig
    \/ Login
    \/ Navigate
    \/ StartupLog
    \/ StartCycle
    \/ PollStation
    \/ EndCycle
    \/ SleepSlice
    \/ LeaveLoop
    \/ Drain

Next == MainStep \/ EscPressed

Spec == Init /\ [][Next]_vars

\* the calls that write files return: a fetch_data call ends at the latest
\* with the TimeoutException of its ten-second wait, and the writes of the
\* separator and of the closing banners end
EveryCallReturns == []<>(pc \notin {"poll", "aborted", "drain"})

\* the main thread keeps running; nothing is assumed of the Esc key
FairSpec ==
    /\ Spec
    /\ WF_vars(StartCycle \/ SleepSlice \/ LeaveLoop)
    /\ EveryCallReturns

\* ------------------------------------------------------------------------
\* Claims about the poll loop
\* ------------------------------------------------------------------------

LastOutcome(res) == res[Len(res)]

\* a step that is one fetch_data call
IsPoll == Len(result') = Len(result) + 1

\* the file a station's text goes to
OutputFileName(st) == st.name \o <<".txt">>

AllStationsPolled(res) == Len(res) = NumStations

\* C1: in every iteration every station gets its fetch_data call, whatever
\* the calls before it came to, and each call that succeeds leaves the
\* station's output file holding the text rendered from the values just
\* fetched.
C1_Isolation ==
    [][ /\ (pc = "poll" /\ pc' # "poll") => AllStationsPolled(result)
        /\ (IsPoll /\ LastOutcome(result').ok) =>
              LET st == stations'[Len(result')]
              IN  /\ OutputFileName(st) \in DOMAIN files'
                  /\ files'[OutputFileName(st)] = Render(st)
                  /\ \A i \in 1..Len(st.params) :
                        st.params[i].value_raw # None ]_vars

\* an iteration in which a station failed between two that succeeded
C1_Witness ==
    \E c \in 1..Len(history) :
        /\ AllStationsPolled(history[c])
        /\ \E i \in 2..(NumStations - 1) :
              /\ ~history[c][i].ok
              /\ history[c][i - 1].ok
              /\ history[c][i + 1].ok
              /\ OutputFileName(stations[i + 1]) \in DOMAIN files

\* C6: once the flag is set while the scheduler sleeps, the next slice is the
\* last one: the sleep loop is left, the while loop ends, and no iteration or
\* station poll begins.
C6_CancelDuringSleep ==
    [][ /\ (exit_flag /\ pc = "sleep") => pc' = "loop"
        /\ (exit_flag /\ pc = "loop") => pc' = "drain"
        /\ (exit_flag /\ pc \in {"sleep", "loop", "drain"}) =>
              (cycle' = cycle /\ result' = result /\ stations' = stations) ]_vars

InitialSlices == Max2(0, LoopTimeQ - elapsed) \div SliceQ

\* the sleep was left early, after a slice that had still found the flag clear
C6_Witness ==
    /\ pc = "drain"
    /\ exit_flag
    /\ slices > 0
    /\ slices + 2 <= InitialSlices

InLoop == pc \in {"loop", "poll", "aborted", "sleep"}

DrainTail ==
    <<TimeStamp, "Received Esc, Preparing to exit...", "\n">> \o SepLine
        \o <<"\n", TimeStamp, "Application Ended", "\n">> \o SepLine \o <<"\n">>

EndsWith(content, tail) ==
    /\ Len(content) >= Len(tail)
    /\ SubSeq(content, Len(content) - Len(tail) + 1, Len(content)) = tail

\* C7: once the flag is set in the poll loop, the scheduler eventually stops
\* with the exit banner, a separator, "Application Ended" and a separator as
\* the last lines of the log, and no further iteration begins.
C7_TerminatesAfterCancel ==
    /\ (exit_flag /\ InLoop) ~>
           (pc = "stopped" /\ log # None /\ EndsWith(TheValue(log), DrainTail))
    /\ [][exit_flag => cycle' = cycle]_vars

\* stopped after a flag set in the middle of an iteration, which was finished
C7_Witness ==
    /\ pc = "stopped"
    /\ exit_flag
    /\ cycle = 1
    /\ history # <<>>
    /\ AllStationsPolled(history[1])
    /\ EndsWith(TheValue(log), DrainTail)

\* C8: a fetch_data call that fails changes no file of data_out and fetches
\* no parameter after the failing one.
C8_FailedPollLeavesOutput ==
    [][ (IsPoll /\ ~LastOutcome(result').ok) =>
          LET s == Len(result')
              o == LastOutcome(result')
          IN  /\ files' = files
              /\ o.stage \in {"tab", "title"} =>
                    stations'[s].params = stations[s].params
              /\ o.stage = "param" =>
                    \A j \in (o.at + 1)..Len(stations[s].params) :
                        stations'[s].params[j] = stations[s].params[j] ]_vars

\* a failure at a parameter that is not the last, of a station whose file an
\* earlier iteration wrote
C8_Witness ==
    /\ result # <<>>
    /\ ~LastOutcome(result).ok
    /\ LastOutcome(result).stage = "param"
    /\ LastOutcome(result).at < Len(stations[Len(result)].params)
    /\ cycle = 2
    /\ history[1][Len(result)].ok
    /\ OutputFileName(stations[Len(result)]) \in DOMAIN files

\* the position of the newline that ends the line before the one ending at e
PrevNewline(c, e) == Max({0} \cup {j \in 1..(e - 1) : c[j] = "\n"})

\* the last k lines of a text that ends with a newline, oldest first
RECURSIVE LastLines(_, _, _)
LastLines(c, e, k) ==
    IF k = 0 \/ e = 0 THEN <<>>
    ELSE LastLines(c, PrevNewline(c, e), k - 1)
             \o <<SubSeq(c, PrevNewline(c, e) + 1, e - 1)>>

StartsWith(line, prefix) ==
    Len(line) >= Len(prefix) /\ SubSeq(line, 1, Len(prefix)) = prefix

\* the line a fetch_data call on station s leaves, given its outcome
IsLineOf(line, s, o) ==
    IF o.ok THEN line = <<TimeStamp>> \o Render(stations[s])
    ELSE StartsWith(line, <<TimeStamp, "Error fetching data for ">>
                              \o stations[s].name \o <<": ">>)

\* C9: when an iteration is complete, the log ends with one line for each
\* station, in order (the info line of a call that succeeded, an error line
\* naming the station of one that failed), then one separator line, and the
\* line before them is the separator that ended what came before.
C9_LogAccounting ==
    (pc \in {"sleep", "loop"} /\ cycle > 0 /\ AllStationsPolled(result)) =>
        LET c == TheValue(log)
            ls == LastLines(c, Len(c), NumStations + 2)
        IN  /\ Len(ls) = NumStations + 2
            /\ ls[1] = SepLine
            /\ ls[NumStations + 2] = SepLine
            /\ \A s \in 1..NumStations : IsLineOf(ls[s + 1], s, result[s])

\* C10: the while loop is left only because the flag is set, and from the
\* loop test with the flag clear the next step of main begins an iteration,
\* whatever the stations of the last one came to.
C10_LoopSurvivesFailures ==
    [][ /\ (InLoop /\ ~InLoop') => (pc = "loop" /\ exit_flag /\ pc' = "drain")
        /\ (pc = "loop" /\ ~exit_flag /\ ~exit_flag' /\ cycle < MaxCycles) =>
              (pc' = "poll" /\ cycle' = cycle + 1) ]_vars

\* a second iteration under way after one in which every station failed
C10_Witness ==
    /\ cycle = 2
    /\ pc = "poll"
    /\ result # <<>>
    /\ \A i \in 1..NumStations : ~history[1][i].ok


\* ------------------------------------------------------------------------
\* Claims about start-up
\* ------------------------------------------------------------------------

\* C11: a failure while the session is set up ends the process at once with
\* the exit status of an uncaught exception: the login is not tried again, no
\* iteration has begun, no station was polled and data_out holds no file;
\* the login step is reached from the configuration step only.
C11_AuthFailureFatal ==
    [][ /\ (pc = "login" /\ pc' # "navigate") =>
              \/ (pc' = "login" /\ UNCHANGED <<log, driver, exitCode>>)
              \/ /\ pc' = "crashed"
                 /\ exitCode' = Some(1)
                 /\ cycle' = 0 /\ result' = <<>> /\ history' = <<>>
                 /\ files' = <<>>
                 /\ \A s \in 1..NumStations :
                        \A i \in 1..Len(stations'[s].params) :
                            stations'[s].params[i].value_raw = None
        /\ pc' = "login" => pc \in {"config", "login"}
        /\ pc # "crashed" ]_vars

\* the login raised: logged, the driver closed, the process over
C11_Witness ==
    /\ pc = "crashed"
    /\ driver = "closed"
    /\ exitCode = Some(1)
    /\ log # None
    /\ EndsWith(TheValue(log), <<TimeStamp>> \o LoginError \o <<"\n">>)
    /\ files = <<>>

\* C12: a process whose configuration could not be read ends with an exit
\* status other than 0, and has neither started a browser nor polled.
C12_ConfigFailureStatus ==
    pc = "exited" =>
        /\ exitCode # None
        /\ TheValue(exitCode) # 0
        /\ driver = "none"
        /\ cycle = 0


\* ------------------------------------------------------------------------
\* SpecRoll: the log file over several runs of the program
\* ------------------------------------------------------------------------

\* SpecRoll: the value of Max_SIZE, in symbols of the model's log
RollMaxSize == 30

\* SpecRoll: stations polled in one iteration
RollStations == 2

\* SpecRoll: length of the longest text a fetch_data call logs (a rendered
\* station or an exception text); the banners are one symbol long
RollLineLen == 12

\* SpecRoll: runs of the program in one behaviour
RollRuns == 3

\* SpecRoll: iterations of the while loop in one behaviour, all runs together
RollCycles == 3

\* the texts fetch_data hands to print_with_log: a short and a long one
RollLines == { [i \in 1..n |-> "x"] : n \in {1, RollLineLen} }

\* the log file is empty (or absent) before the program's first run
InitRoll ==
    /\ prm = ParamInit("ppm")
    /\ prmRaised = FALSE
    /\ lastAppend = None
    /\ Max_SIZE = RollMaxSize
    /\ log = None
    /\ pc = "roll_start"
    /\ exit_flag = FALSE
    /\ stations = <<>>
    /\ files = <<>>
    /\ driver = "none"
    /\ exitCode = None
    /\ cycle = 0
    /\ result = <<>>
    /\ history = <<>>
    /\ elapsed = 0
    /\ slices = 0
    /\ srcUp = TRUE
    /\ faults = 0

\* lines 430-436 of a run that got as far as the loop
RollStartup ==
    /\ pc = "roll_start"
    /\ Len(history) < RollRuns
    /\ log' = StartupLines(log)
    /\ pc' = "roll_loop"
    /\ UNCHANGED <<paramVars, Max_SIZE, lastAppend, exit_flag, stations, files, driver,
                   exitCode, cycle, result, history, elapsed, slices, srcUp, faults>>

\* lines 212 and 218: the one line a fetch_data call appends
RollPoll ==
    /\ pc = "roll_loop"
    /\ Len(result) < RollStations
    /\ cycle < RollCycles
    /\ \E text \in RollLines :
          /\ log' = print_with_log(text, log, TRUE)
          /\ result' = Append(result, text)
    /\ UNCHANGED <<paramVars, Max_SIZE, lastAppend, pc, exit_flag, stations, files,
                   driver, exitCode, cycle, history, elapsed, slices, srcUp, faults>>

\* lines 450-451: the separator that ends an iteration
RollSeparator ==
    /\ pc = "roll_loop"
    /\ Len(result) = RollStations
    /\ log' = print_with_log(SepLine, log, FALSE)
    /\ result' = <<>>
    /\ cycle' = cycle + 1
    /\ UNCHANGED <<paramVars, Max_SIZE, lastAppend, pc, exit_flag, stations, files,
                   driver, exitCode, history, elapsed, slices, srcUp, faults>>

\* lines 467-474: Esc was seen at the loop test; the next run starts later
\* (history counts the runs that have ended)
RollDrain ==
    /\ pc = "roll_loop"
    /\ result = <<>>
    /\ log' = DrainLines(log)
    /\ pc' = "roll_start"
    /\ history' = Append(history, result)
    /\ UNCHANGED <<paramVars, Max_SIZE, lastAppend, exit_flag, stations, files, driver,
                   exitCode, cycle, result, elapsed, slices, srcUp, faults>>

NextRoll == RollStartup \/ RollPoll \/ RollSeparator \/ RollDrain

SpecRoll == InitRoll /\ [][NextRoll]_vars

\* the largest block an iteration writes: its lines and its separator
RollBlock == RollStations * (RollLineLen + 2) + SepLen + 1

\* C13: the log written by the program from an empty file never holds more
\* than Max_SIZE bytes plus one block.
C13_LogSizeBound ==
    log # None => ByteSize(TheValue(log)) <= Max_SIZE + RollBlock


\* ------------------------------------------------------------------------
\* Claims about one fetch_data call
\* ------------------------------------------------------------------------

\* the station the step's fetch_data call was made on, after the call
Polled == stations'[Len(result')]

\* parameter i of the polled station took a text without a valid number
FetchedNonNumeric(i) ==
    LET p == Polled.params[i]
    IN  /\ p.value_raw # None
        /\ p.value_raw # stations[Len(result')].params[i].value_raw
        /\ ~HasValidToken(TheValue(p.value_raw))

\* C14: a fetched text without a valid number does not fail the poll: the
\* parameter is recorded unhealthy, every parameter of the station is fetched,
\* and the output file holds the rendering with "Invalid Data" for it.
C14_NonNumericNotAnError ==
    [][ IsPoll =>
          \A i \in 1..Len(Polled.params) :
              FetchedNonNumeric(i) =>
                  /\ LastOutcome(result').ok
                  /\ ~Polled.params[i].is_health_ok
                  /\ \A j \in 1..Len(Polled.params) :
                        Polled.params[j].value_raw # None
                  /\ OutputFileName(Polled) \in DOMAIN files'
                  /\ files'[OutputFileName(Polled)] = Render(Polled) ]_vars


\* ------------------------------------------------------------------------
\* More claims about the poll loop
\* ------------------------------------------------------------------------

\* C15: a flag set while an iteration polls changes nothing of that
\* iteration: the next step of main is the next station's fetch_data call,
\* or, after the last station, the separator and the sleep computation; the
\* loop is left for the drain from the while test only.
C15_NotPreemptive ==
    [][ /\ (exit_flag /\ pc = "poll") =>
              IF Len(result) < NumStations
              THEN IsPoll /\ pc' = "poll" /\ cycle' = cycle
              ELSE /\ pc' \in {"sleep", "loop"}
                   /\ history' = Append(history, result)
                   /\ EndsWith(TheValue(log'), SepLine \o <<"\n">>)
                   /\ Len(TheValue(log')) = Len(TheValue(log)) + SepLen + 1
        /\ pc' = "drain" => pc \in {"loop", "drain"} ]_vars

\* the flag was set during the polls and every station has been polled
C15_Witness ==
    /\ pc = "poll"
    /\ exit_flag
    /\ AllStationsPolled(result)
    /\ \E s \in 1..NumStations : result[s].ok


\* the time the sleep loop set up by the step will sleep, in quarter seconds
SleepPlanned == slices' * SliceQ

\* C16: after an iteration that took elapsed, the sleep loop is set up to
\* sleep max(0, loop_time - elapsed), so that the iteration and its sleep
\* together take at least loop_time; no sleep at all when elapsed is at
\* least loop_time.
C16_SleepCompensation ==
    [][ (pc = "poll" /\ pc' \in {"sleep", "loop"}) =>
          /\ SleepPlanned = Max2(0, LoopTimeQ - elapsed')
          /\ elapsed' + SleepPlanned >= LoopTimeQ
          /\ elapsed' >= LoopTimeQ => (slices' = 0 /\ pc' = "loop") ]_vars


\* the class and selector index the k-th call of an iteration is made on
ConfiguredOrder(k) ==
    IF k <= NumCaaqms THEN <<"caaqms", k>>
    ELSE IF k <= NumCaaqms + NumCems THEN <<"cems", k - NumCaaqms>>
         ELSE <<"eqms", 0>>

\* C17: the k-th fetch_data call of every iteration is made on the k-th
\* station of the order 3 air-quality stations, 7 emission units, effluent
\* station, one call per step and on no other station; a call that fails at
\* parameter n has fetched exactly the parameters 1..n-1 before it.
C17_FixedOrder ==
    [][ IsPoll =>
          LET k == Len(result')
              o == LastOutcome(result')
          IN  /\ SubSeq(result', 1, k - 1) = result
              /\ <<Polled.cat, Polled.selector_idx>> = ConfiguredOrder(k)
              /\ \A j \in 1..NumStations : j # k => stations'[j] = stations[j]
              /\ o.stage = "param" =>
                    /\ \A j \in 1..(o.at - 1) :
                          Polled.params[j].value_raw = Some(NominalText(cycle))
                    /\ \A j \in (o.at + 1)..Len(Polled.params) :
                          Polled.params[j] = stations[k].params[j] ]_vars

\* a second iteration has polled all stations, one of them failing at its
\* last parameter
C17_Witness ==
    /\ cycle = 2
    /\ AllStationsPolled(result)
    /\ \E k \in 1..NumStations :
          /\ result[k].stage = "param"
          /\ result[k].at = Len(stations[k].params)


\* ------------------------------------------------------------------------
\* Claims about the stations' names
\* ------------------------------------------------------------------------

\* C18: a station whose suffix is known keeps its name and suffix for good;
\* one whose suffix is not known keeps its name when the call fails before
\* or at the title lookup or the title is unusable, takes the suffix once
\* when the title is usable (always so for the title the dashboard shows
\* when nothing is wrong), and the parameters keep their number, order and
\* units.
C18_OneTimeDiscovery ==
    [][ IsPoll =>
          LET k == Len(result')
              st == stations[k]
              o == LastOutcome(result')
          IN  /\ Polled.cat = st.cat
              /\ Len(Polled.params) = Len(st.params)
              /\ \A i \in 1..Len(st.params) : Polled.params[i].unit = st.params[i].unit
              /\ (st.unit # None \/ st.cat = "eqms") =>
                    (Polled.name = st.name /\ Polled.unit = st.unit)
              /\ (st.unit = None /\ o.stage \in {"tab", "title"}) =>
                    (Polled.name = st.name /\ Polled.unit = None)
              /\ st.unit = None =>
                    \/ Polled.unit = None /\ Polled.name = st.name
                    \/ /\ Polled.unit # None
                       /\ Polled.name = st.name \o TheValue(Polled.unit)
              /\ (st.unit = None /\ st.cat # "eqms" /\ srcUp /\ faults' = faults) =>
                    Polled.unit = Some(<<DigitChar(st.selector_idx)>>) ]_vars

\* an emission unit whose title was unusable in the first iteration, so that
\* its file was written under the bare name, has its suffix in the second
C18_Witness ==
    /\ cycle = 2
    /\ <<"CEMS UNIT# ", ".txt">> \in DOMAIN files
    /\ result # <<>>
    /\ \A k \in 1..Len(result) : stations[k].cat # "eqms" => stations[k].unit # None
    /\ Len(result) >= NumCaaqms + NumCems


\* ------------------------------------------------------------------------
\* Claims about the browser session
\* ------------------------------------------------------------------------

\* C19: a driver that was opened is closed when the process has ended,
\* whether by a login that raised, a navigation that raised or the end of
\* the loop; a closed driver stays closed, and no fetch_data call is made
\* and no station or output file changes once it is closed.
C19_SessionReleased ==
    [][ /\ pc' \in {"crashed", "stopped", "exited"} => driver' # "open"
        /\ (pc = "loop" /\ pc' = "drain") => driver' = "closed"
        /\ driver = "open" => driver' \in {"open", "closed"}
        /\ driver = "closed" =>
              /\ driver' = "closed"
              /\ ~IsPoll
              /\ stations' = stations
              /\ files' = files ]_vars

\* the loop was left after its last iteration and the driver is closed
\* while the closing lines are still to be written
C19_Witness ==
    /\ pc = "drain"
    /\ driver = "closed"
    /\ cycle = MaxCycles
    /\ files # <<>>


\* station k has written its output file in the current iteration
WroteFile(k) == k <= Len(result) /\ result[k].ok

\* C20: two different stations that wrote their output file in the same
\* iteration wrote two different files.
C20_DistinctOutputFiles ==
    \A j, k \in 1..Len(stations) :
        (j < k /\ WroteFile(j) /\ WroteFile(k)) =>
            OutputFileName(stations[j]) # OutputFileName(stations[k])

====
